---- MODULE Spec2Model ----
(***************************************************************************)
(* Model of data_logging.py: the acquisition daemon that polls the Fluke   *)
(* 1620A over a serial link, parses each response line into a reading and  *)
(* writes it to the PostgreSQL table sensor_data and to a per-day CSV      *)
(* file.                                                                   *)
(*                                                                         *)
(* Text is modelled as a sequence of one-character strings, a timestamp    *)
(* field as the tuple of the six numbers strptime reads from it.  A file   *)
(* on disk is a record [exists, rows]; a file object is a record           *)
(* [day, mode, open, closes] kept in the sequence handles, and the Python  *)
(* names csvfile and csv_writer hold an index into it (0 = unbound).       *)
(* close() of a file object and conn.close() are taken not to fail.        *)
(***************************************************************************)
EXTENDS Integers, Sequences, FiniteSets, TLC

(* ---------------------------- bounds ---------------------------------- *)
\* number of calendar days the wall clock can take
MaxDay == 2
\* number of acquisition cycles that are started
MaxCycles == 2
\* number of lines in one instrument response
MaxLines == 2

(* ------------------------ program constants --------------------------- *)
\* len(parts) >= 8
MinFields == 8

\* the calendar dates datetime.now().date() can return
FirstDate == <<2024, 1, 1>>

Dates == { <<FirstDate[1], FirstDate[2], d>> : d \in 1..MaxDay }

NextDate(date) == <<date[1], date[2], date[3] + 1>>

(* ----------------------------- text ----------------------------------- *)
Digits == {"0", "1", "2", "3", "4", "5", "6", "7", "8", "9"}

DigitVal(c) ==
    CASE c = "0" -> 0 [] c = "1" -> 1 [] c = "2" -> 2 [] c = "3" -> 3
      [] c = "4" -> 4 [] c = "5" -> 5 [] c = "6" -> 6 [] c = "7" -> 7
      [] c = "8" -> 8 [] c = "9" -> 9

\* str.strip(): drop blanks at both ends
RECURSIVE lstrip(_)
lstrip(s) == IF s # <<>> /\ Head(s) = " " THEN lstrip(Tail(s)) ELSE s

RECURSIVE rstrip(_, _)
\* str.rstrip(ch): drop every trailing occurrence of ch
rstrip(s, ch) ==
    IF s # <<>> /\ s[Len(s)] = ch THEN rstrip(SubSeq(s, 1, Len(s) - 1), ch) ELSE s

strip(s) == rstrip(lstrip(s), " ")

\* float(text) succeeds on a non-empty run of digits (the texts of the model
\* carry no sign, point or exponent)
FloatOk(s) == s # <<>> /\ \A i \in 1..Len(s) : s[i] \in Digits

RECURSIVE FloatVal(_)
FloatVal(s) ==
    IF s = <<>> THEN 0 ELSE 10 * FloatVal(SubSeq(s, 1, Len(s) - 1)) + DigitVal(s[Len(s)])

(* --------------------------- timestamps ------------------------------- *)
IsLeap(y) == (y % 4 = 0 /\ y % 100 # 0) \/ y % 400 = 0

DaysInMonth(y, m) ==
    IF m = 2 THEN (IF IsLeap(y) THEN 29 ELSE 28)
    ELSE IF m \in {4, 6, 9, 11} THEN 30 ELSE 31

\* datetime.strptime(text, "%d/%m/%Y %H:%M:%S"): the field is the tuple
\* <<day, month, year, hour, minute, second>> read from the text; anything
\* else (another arity, a value out of range) raises ValueError
StrptimeOk(f) ==
    /\ Len(f) = 6
    /\ \A i \in 1..6 : f[i] \in Int
    /\ f[3] \in 1..9999
    /\ f[2] \in 1..12
    /\ f[1] \in 1..DaysInMonth(f[3], f[2])
    /\ f[4] \in 0..23
    /\ f[5] \in 0..59
    /\ f[6] \in 0..59

Strptime(f) == [year |-> f[3], month |-> f[2], day |-> f[1],
                hour |-> f[4], minute |-> f[5], second |-> f[6]]

\* timestamp.date()
DateOf(ts) == <<ts.year, ts.month, ts.day>>

\* Time(dt, format='datetime').mjd: the day number of the civil date minus
\* that of 1858-11-17, plus the time of day as a fraction secs/86400
DayNumber(y, m, d) ==
    LET a  == (14 - m) \div 12
        yy == y + 4800 - a
        mm == m + 12 * a - 3
    IN  d + (153 * mm + 2) \div 5 + 365 * yy + yy \div 4 - yy \div 100
          + yy \div 400 - 32045

datetime_to_mjd(ts) ==
    [days |-> DayNumber(ts.year, ts.month, ts.day) - 2400001,
     secs |-> ts.hour * 3600 + ts.minute * 60 + ts.second]

(* --------------------------- readings --------------------------------- *)
NoTimestamp == [year |-> 0, month |-> 0, day |-> 0,
                hour |-> 0, minute |-> 0, second |-> 0]

NoReading == [timestamp |-> NoTimestamp, mjd |-> [days |-> 0, secs |-> 0],
              temperature_s1 |-> 0, humidity_s1 |-> 0,
              temperature_s2 |-> 0, humidity_s2 |-> 0]

\* ParseLine with a copied line left unedited: temperature_s2 is read from
\* field 1 as temperature_s1 is
ParseLine_copied_field(parts) ==
    IF Len(parts) >= MinFields
    THEN IF ~StrptimeOk(parts[1])
         THEN [ok |-> FALSE, log |-> "Error parsing timestamp", reading |-> NoReading]
         ELSE LET timestamp == Strptime(parts[1])
                  f1 == rstrip(strip(parts[2]), "C")
                  f3 == rstrip(strip(parts[4]), "%")
                  f5 == rstrip(strip(parts[2]), "C")
                  f7 == rstrip(strip(parts[8]), "%")
              IN  IF FloatOk(f1) /\ FloatOk(f3) /\ FloatOk(f5) /\ FloatOk(f7)
                  THEN [ok |-> TRUE, log |-> "",
                        reading |-> [timestamp |-> timestamp,
                                     mjd |-> datetime_to_mjd(timestamp),
                                     temperature_s1 |-> FloatVal(f1),
                                     humidity_s1 |-> FloatVal(f3),
                                     temperature_s2 |-> FloatVal(f5),
                                     humidity_s2 |-> FloatVal(f7)]]
                  ELSE [ok |-> FALSE, log |-> "Error converting data to float",
                        reading |-> NoReading]
    ELSE [ok |-> FALSE, log |-> "Unexpected format in line", reading |-> NoReading]

\* one line of process_data up to the sink writes: the line is the list
\* parts of its comma-separated fields; the result says whether a reading
\* was built, what was logged otherwise, and the reading
ParseLine(parts) ==
    IF Len(parts) >= MinFields
    THEN IF ~StrptimeOk(parts[1])
         THEN [ok |-> FALSE, log |-> "Error parsing timestamp", reading |-> NoReading]
         ELSE LET timestamp == Strptime(parts[1])
                  f1 == rstrip(strip(parts[2]), "C")
                  f3 == rstrip(strip(parts[4]), "%")
                  f5 == rstrip(strip(parts[6]), "C")
                  f7 == rstrip(strip(parts[8]), "%")
              IN  IF FloatOk(f1) /\ FloatOk(f3) /\ FloatOk(f5) /\ FloatOk(f7)
                  THEN [ok |-> TRUE, log |-> "",
                        reading |-> [timestamp |-> timestamp,
                                     mjd |-> datetime_to_mjd(timestamp),
                                     temperature_s1 |-> FloatVal(f1),
                                     humidity_s1 |-> FloatVal(f3),
                                     temperature_s2 |-> FloatVal(f5),
                                     humidity_s2 |-> FloatVal(f7)]]
                  ELSE [ok |-> FALSE, log |-> "Error converting data to float",
                        reading |-> NoReading]
    ELSE [ok |-> FALSE, log |-> "Unexpected format in line", reading |-> NoReading]

\* csv_writer.writerow([date_str, timestamp, mjd, ...])
CsvRow(r) == [kind |-> "data",
              cols |-> <<DateOf(r.timestamp), r.timestamp, r.mjd,
                         r.temperature_s1, r.humidity_s1,
                         r.temperature_s2, r.humidity_s2>>]

Header == [kind |-> "header",
           cols |-> <<"date", "timestamp", "mjd", "temperature_s1",
                      "humidity_s1", "temperature_s2", "humidity_s2">>]

(* ---------------------- instrument responses -------------------------- *)
Stamp(d, h, m, s) == <<d, FirstDate[2], FirstDate[1], h, m, s>>

\* "01/01/2024 23:59:58,21C,x,45%,x,22C,x,46%"
LineDay1 == << Stamp(1, 23, 59, 58), <<"2", "1", "C">>, <<"x">>, <<"4", "5", "%">>,
               <<"x">>, <<"2", "2", "C">>, <<"x">>, <<"4", "6", "%">> >>

\* "02/01/2024 00:00:08, 23C ,y,47%,y,24C,y,48%,tail"
LineDay2 == << Stamp(2, 0, 0, 8), <<" ", "2", "3", "C", " ">>, <<"y">>, <<"4", "7", "%">>,
               <<"y">>, <<"2", "4", "C">>, <<"y">>, <<"4", "8", "%">>, <<"t">> >>

\* only five fields
LineShort == << Stamp(1, 10, 0, 0), <<"2", "1", "C">>, <<"x">>, <<"4", "5", "%">>, <<"x">> >>

\* "01/13/2024 10:00:00,...": month 13
LineBadStamp == << <<1, 13, FirstDate[1], 10, 0, 0>>, <<"2", "1", "C">>, <<"x">>, <<"4", "5", "%">>,
                   <<"x">>, <<"2", "2", "C">>, <<"x">>, <<"4", "6", "%">> >>

\* field 1 is "xC"
LineBadTemp == << Stamp(1, 10, 0, 0), <<"x", "C">>, <<"x">>, <<"4", "5", "%">>,
                  <<"x">>, <<"2", "2", "C">>, <<"x">>, <<"4", "6", "%">> >>

\* field 7 is "46C": the unit of a temperature on a humidity
LineBadHum == << Stamp(1, 10, 0, 0), <<"2", "1", "C">>, <<"x">>, <<"4", "5", "%">>,
                 <<"x">>, <<"2", "2", "C">>, <<"x">>, <<"4", "6", "C">> >>

\* LineDay1 with other texts in fields 2, 4 and 6 and two fields more:
\* "01/01/2024 23:59:58,21C,C,45%,9,22C,%,46%,7C,x"
LineDay1Alt == << Stamp(1, 23, 59, 58), <<"2", "1", "C">>, <<"C">>, <<"4", "5", "%">>,
                  <<"9">>, <<"2", "2", "C">>, <<"%">>, <<"4", "6", "%">>,
                  <<"7", "C">>, <<"x">> >>

\* the lines the instrument sends in the acquisition loop
LineSet == {LineDay1, LineDay2, LineShort}

\* the lines process_data is fed when it is examined on its own
ParseLineSet == LineSet \cup {LineBadStamp, LineBadTemp, LineBadHum, LineDay1Alt}

\* ser.read_all().decode().strip().splitlines(): the lines of one response
Responses == UNION { [1..n -> LineSet] : n \in 0..MaxLines }

ParseResponses == UNION { [1..n -> ParseLineSet] : n \in 0..MaxLines }

(* ------------------------------ state --------------------------------- *)
VARIABLES
    pc,          \* position in main
    conn,        \* database connection: "none", "open", "closed"
    schema_ok,   \* CREATE TABLE IF NOT EXISTS was committed
    ser,         \* serial port: "unopened", "open", "closed", "failed"
    now,         \* the date datetime.now().date() returns
    today_date,  \* main's today_date
    disk,        \* date -> [exists, rows]: the day files on disk
    disk0,       \* the day files when main started
    handles,     \* the file objects created so far
    csvfile,     \* main's csvfile
    withfile,    \* the file object managed by the with statement of line 147
    csv_writer,  \* the file object main's csv_writer writes to
    table,       \* rows committed to sensor_data
    response,    \* data_lines of the current process_data call
    idx,         \* index of the line the for loop is at
    cur,         \* the reading of the current line
    readings,    \* readings built so far by the current process_data call
    cycles,      \* cycles started
    requests,    \* calls of read_data
    exc,         \* the exception that ended the loop
    db_result,   \* outcome of the last write_to_database
    txn,         \* how the last database call left its transaction
    csv_result   \* outcome of the last writerow

vars == <<pc, conn, schema_ok, ser, now, today_date, disk, disk0, handles,
          csvfile, withfile, csv_writer, table, response, idx, cur, readings,
          cycles, requests, exc, db_result, txn, csv_result>>

NoDate == <<0, 0, 0>>
NoExc == [type |-> "none", site |-> "none"]
NoFile == [exists |-> FALSE, rows |-> <<>>]
NewFile == [exists |-> TRUE, rows |-> <<Header>>]

\* a row an earlier run appended on a date
OldReading(date) ==
    LET ts == [year |-> date[1], month |-> date[2], day |-> date[3],
               hour |-> 12, minute |-> 0, second |-> 0]
    IN  [timestamp |-> ts, mjd |-> datetime_to_mjd(ts),
         temperature_s1 |-> 20, humidity_s1 |-> 40,
         temperature_s2 |-> 20, humidity_s2 |-> 40]

\* the file an earlier run left for a date: the header and a row
OldFile(date) == [exists |-> TRUE, rows |-> <<Header, CsvRow(OldReading(date))>>]

\* the day files a start can find: none, or the file of one date left by an
\* earlier run
InitialDisks ==
    {[d \in Dates |-> NoFile]} \cup
    {[d \in Dates |-> IF d = e THEN OldFile(e) ELSE NoFile] : e \in Dates}

StartingPcs == {"connect", "create_table", "init_file", "open_append", "open_serial"}
RunningPcs == {"cycle", "roll_header", "roll_open", "request", "process",
               "db_write", "csv_write", "sleep"}
StoppedPcs == {"finally", "stopped"}

\* the positions before the try statement of line 150
BeforeTry == {"connect", "create_table", "init_file", "open_append"}

\* the exceptions main catches (lines 177-180)
Caught == {"SerialException", "PermissionError"}

Init ==
    /\ pc = "connect"
    /\ conn = "none"
    /\ schema_ok = FALSE
    /\ ser = "unopened"
    /\ now = FirstDate
    /\ today_date = NoDate
    /\ disk \in InitialDisks
    /\ disk0 = disk
    /\ handles = <<>>
    /\ csvfile = 0
    /\ withfile = 0
    /\ csv_writer = 0
    /\ table = <<>>
    /\ response = <<>>
    /\ idx = 0
    /\ cur = NoReading
    /\ readings = <<>>
    /\ cycles = 0
    /\ requests = 0
    /\ exc = NoExc
    /\ db_result = "none"
    /\ txn = "none"
    /\ csv_result = "none"

(* ------------------------- file objects ------------------------------- *)
\* open(path, mode): a new, open file object on the file of a day
OpenHandle(day, mode) == [day |-> day, mode |-> mode, open |-> TRUE, closes |-> 0]

\* file.close(): a second close of a file object changes nothing but is counted
CloseHandle(hs, h) ==
    IF h = 0 THEN hs
    ELSE [hs EXCEPT ![h] = [@ EXCEPT !.open = FALSE, !.closes = @ + 1]]

\* f'sensor_dataset_{today_date}.csv': the file of a date
csv_file_path(date) == date

\* with open(csv_file_path, 'w') as f: csv.writer(f).writerow(header)
\* creates the file with the header row and leaves f closed
HeaderHandle(day) == [day |-> day, mode |-> "w", open |-> FALSE, closes |-> 1]

\* Raise with the port opened without a with statement: the exception
\* reaches the handlers and the port stays open
Raise_port_left_open(type, site) ==
    /\ pc' = "finally"
    /\ exc' = [type |-> type, site |-> site]
    /\ ser' = ser

\* an exception leaves the with statement of the serial port (which closes
\* the port) and reaches the handlers of main's try statement
Raise(type, site) ==
    /\ pc' = "finally"
    /\ exc' = [type |-> type, site |-> site]
    /\ ser' = IF ser = "open" THEN "closed" ELSE ser

\* an exception raised before the try statement leaves main at once
Escape(type, site) ==
    /\ pc' = "stopped"
    /\ exc' = [type |-> type, site |-> site]

(* ------------------------------ Starting ------------------------------ *)
\* lines 130-132 with connect_to_db: a connection, or None and return
connect_to_db ==
    /\ pc = "connect"
    /\ \E ok \in BOOLEAN :
         IF ok THEN conn' = "open" /\ pc' = "create_table"
               ELSE conn' = conn /\ pc' = "stopped"
    /\ UNCHANGED <<txn, schema_ok, ser, now, today_date, disk, disk0, handles, csvfile,
                   withfile, csv_writer, table, response, idx, cur, readings,
                   cycles, requests, exc, db_result, csv_result>>

\* line 134: a database error is printed and rolled back, and main goes on;
\* "lost" is an error after which conn.rollback() raises as well
create_table_if_not_exists ==
    /\ pc = "create_table"
    /\ \E out \in {"ok", "error", "lost"} :
         CASE out = "ok" ->
                /\ schema_ok' = TRUE
                /\ txn' = "committed"
                /\ pc' = "init_file"
                /\ exc' = exc
           [] out = "error" ->
                /\ schema_ok' = schema_ok
                /\ txn' = "rolled_back"
                /\ pc' = "init_file"
                /\ exc' = exc
           [] out = "lost" ->
                /\ schema_ok' = schema_ok
                /\ txn' = "left_open"
                /\ Escape("InterfaceError", "create_table_if_not_exists")
    /\ UNCHANGED <<conn, ser, now, today_date, disk, disk0, handles, csvfile,
                   withfile, csv_writer, table, response, idx, cur, readings,
                   cycles, requests, db_result, csv_result>>

\* lines 137-144: today's date, and the header file when there is none
init_file ==
    /\ pc = "init_file"
    /\ today_date' = now
    /\ IF ~disk[csv_file_path(now)].exists
       THEN \E out \in {"ok", "OSError", "PermissionError"} :
              IF out = "ok"
              THEN /\ disk' = [disk EXCEPT ![csv_file_path(now)] = NewFile]
                   /\ handles' = Append(handles, HeaderHandle(now))
                   /\ csvfile' = Len(handles) + 1
                   /\ csv_writer' = Len(handles) + 1
                   /\ pc' = "open_append"
                   /\ exc' = exc
              ELSE /\ Escape(out, "init_file")
                   /\ UNCHANGED <<disk, handles, csvfile, csv_writer>>
       ELSE /\ pc' = "open_append"
            /\ UNCHANGED <<disk, handles, csvfile, csv_writer, exc>>
    /\ UNCHANGED <<txn, conn, schema_ok, ser, now, disk0, withfile, table, response,
                   idx, cur, readings, cycles, requests, db_result, csv_result>>

\* open_append without line 148: the file is opened for appending but
\* csv_writer stays on the file object of the header, if there was one
open_append_keeps_writer ==
    /\ pc = "open_append"
    /\ \E out \in {"ok", "OSError", "PermissionError"} :
         IF out = "ok"
         THEN /\ handles' = Append(handles, OpenHandle(today_date, "a"))
              /\ disk' = [disk EXCEPT ![csv_file_path(today_date)].exists = TRUE]
              /\ csvfile' = Len(handles) + 1
              /\ withfile' = Len(handles) + 1
              /\ csv_writer' = csv_writer
              /\ pc' = "open_serial"
              /\ exc' = exc
         ELSE /\ Escape(out, "open_append")
              /\ UNCHANGED <<handles, disk, csvfile, withfile, csv_writer>>
    /\ UNCHANGED <<txn, conn, schema_ok, ser, now, today_date, disk0, table, response,
                   idx, cur, readings, cycles, requests, db_result, csv_result>>

\* lines 147-148: with open(csv_file_path, 'a') as csvfile
open_append ==
    /\ pc = "open_append"
    /\ \E out \in {"ok", "OSError", "PermissionError"} :
         IF out = "ok"
         THEN /\ handles' = Append(handles, OpenHandle(today_date, "a"))
              /\ disk' = [disk EXCEPT ![csv_file_path(today_date)].exists = TRUE]
              /\ csvfile' = Len(handles) + 1
              /\ withfile' = Len(handles) + 1
              /\ csv_writer' = Len(handles) + 1
              /\ pc' = "open_serial"
              /\ exc' = exc
         ELSE /\ Escape(out, "open_append")
              /\ UNCHANGED <<handles, disk, csvfile, withfile, csv_writer>>
    /\ UNCHANGED <<txn, conn, schema_ok, ser, now, today_date, disk0, table, response,
                   idx, cur, readings, cycles, requests, db_result, csv_result>>

\* open_serial with the port opened outside the try statement: a failure
\* leaves main without passing through finally
open_serial_outside_try ==
    /\ pc = "open_serial"
    /\ \E out \in {"ok", "SerialException", "PermissionError"} :
         IF out = "ok"
         THEN /\ ser' = "open"
              /\ pc' = "cycle"
              /\ exc' = exc
         ELSE /\ ser' = "failed"
              /\ pc' = "stopped"
              /\ exc' = [type |-> out, site |-> "open_serial"]
    /\ UNCHANGED <<txn, conn, schema_ok, now, today_date, disk, disk0, handles, csvfile,
                   withfile, csv_writer, table, response, idx, cur, readings,
                   cycles, requests, db_result, csv_result>>

\* lines 150-152: with serial.Serial(...) as ser
open_serial ==
    /\ pc = "open_serial"
    /\ \E out \in {"ok", "SerialException", "PermissionError"} :
         IF out = "ok"
         THEN /\ ser' = "open"
              /\ pc' = "cycle"
              /\ exc' = exc
         ELSE /\ ser' = "failed"
              /\ pc' = "finally"
              /\ exc' = [type |-> out, site |-> "open_serial"]
    /\ UNCHANGED <<txn, conn, schema_ok, now, today_date, disk, disk0, handles, csvfile,
                   withfile, csv_writer, table, response, idx, cur, readings,
                   cycles, requests, db_result, csv_result>>

(* ------------------------------ Running ------------------------------- *)
\* check_rollover without line 158: the date moves on but the file object of
\* the day before is left open
check_rollover_without_close ==
    /\ pc = "cycle"
    /\ cycles < MaxCycles
    /\ cycles' = cycles + 1
    /\ IF now # today_date
       THEN /\ handles' = handles
            /\ today_date' = now
            /\ pc' = "roll_header"
       ELSE /\ pc' = "request"
            /\ UNCHANGED <<handles, today_date>>
    /\ UNCHANGED <<txn, conn, schema_ok, ser, now, disk, disk0, csvfile, withfile,
                   csv_writer, table, response, idx, cur, readings, requests,
                   exc, db_result, csv_result>>

\* check_rollover without the date comparison: every cycle closes the file
\* and opens it again
check_rollover_always_rotate ==
    /\ pc = "cycle"
    /\ cycles < MaxCycles
    /\ cycles' = cycles + 1
    /\ handles' = CloseHandle(handles, csvfile)
    /\ today_date' = now
    /\ pc' = "roll_header"
    /\ UNCHANGED <<txn, conn, schema_ok, ser, now, disk, disk0, csvfile, withfile,
                   csv_writer, table, response, idx, cur, readings, requests,
                   exc, db_result, csv_result>>

\* lines 156-159: the date check at the start of a cycle; on a new date the
\* current file is closed and today_date moves on
check_rollover ==
    /\ pc = "cycle"
    /\ cycles < MaxCycles
    /\ cycles' = cycles + 1
    /\ IF now # today_date
       THEN /\ handles' = CloseHandle(handles, csvfile)
            /\ today_date' = now
            /\ pc' = "roll_header"
       ELSE /\ pc' = "request"
            /\ UNCHANGED <<handles, today_date>>
    /\ UNCHANGED <<txn, conn, schema_ok, ser, now, disk, disk0, csvfile, withfile,
                   csv_writer, table, response, idx, cur, readings, requests,
                   exc, db_result, csv_result>>

\* roll_header without the os.path.exists test: the file of the new date is
\* opened in 'w' mode and given a header whether or not it is there already
roll_header_always ==
    /\ pc = "roll_header"
    /\ \E out \in {"ok", "OSError", "PermissionError"} :
         IF out = "ok"
         THEN /\ disk' = [disk EXCEPT ![csv_file_path(today_date)] = NewFile]
              /\ handles' = Append(handles, HeaderHandle(today_date))
              /\ csv_writer' = Len(handles) + 1
              /\ pc' = "roll_open"
              /\ UNCHANGED <<exc, ser>>
         ELSE /\ Raise(out, "rollover")
              /\ UNCHANGED <<disk, handles, csv_writer>>
    /\ UNCHANGED <<txn, conn, schema_ok, now, today_date, disk0, csvfile, withfile,
                   table, response, idx, cur, readings, cycles, requests,
                   db_result, csv_result>>

\* lines 160-164: the header file of the new date when there is none
roll_header ==
    /\ pc = "roll_header"
    /\ IF ~disk[csv_file_path(today_date)].exists
       THEN \E out \in {"ok", "OSError", "PermissionError"} :
              IF out = "ok"
              THEN /\ disk' = [disk EXCEPT ![csv_file_path(today_date)] = NewFile]
                   /\ handles' = Append(handles, HeaderHandle(today_date))
                   /\ csv_writer' = Len(handles) + 1
                   /\ pc' = "roll_open"
                   /\ UNCHANGED <<exc, ser>>
              ELSE /\ Raise(out, "rollover")
                   /\ UNCHANGED <<disk, handles, csv_writer>>
       ELSE /\ pc' = "roll_open"
            /\ UNCHANGED <<disk, handles, csv_writer, exc, ser>>
    /\ UNCHANGED <<txn, conn, schema_ok, now, today_date, disk0, csvfile, withfile,
                   table, response, idx, cur, readings, cycles, requests,
                   db_result, csv_result>>

\* roll_open with a path that was not recomputed for the new date: the file
\* of the previous date is opened again
roll_open_stale_path ==
    /\ pc = "roll_open"
    /\ \E out \in {"ok", "OSError", "PermissionError"} :
         IF out = "ok"
         THEN /\ handles' = Append(handles, OpenHandle(handles[csvfile].day, "a"))
              /\ disk' = [disk EXCEPT ![csv_file_path(handles[csvfile].day)].exists = TRUE]
              /\ csvfile' = Len(handles) + 1
              /\ csv_writer' = Len(handles) + 1
              /\ pc' = "request"
              /\ UNCHANGED <<exc, ser>>
         ELSE /\ Raise(out, "rollover")
              /\ UNCHANGED <<handles, disk, csvfile, csv_writer>>
    /\ UNCHANGED <<txn, conn, schema_ok, now, today_date, disk0, withfile, table,
                   response, idx, cur, readings, cycles, requests, db_result,
                   csv_result>>

\* lines 165-166: csvfile = open(csv_file_path, 'a'); csv_writer on it
roll_open ==
    /\ pc = "roll_open"
    /\ \E out \in {"ok", "OSError", "PermissionError"} :
         IF out = "ok"
         THEN /\ handles' = Append(handles, OpenHandle(today_date, "a"))
              /\ disk' = [disk EXCEPT ![csv_file_path(today_date)].exists = TRUE]
              /\ csvfile' = Len(handles) + 1
              /\ csv_writer' = Len(handles) + 1
              /\ pc' = "request"
              /\ UNCHANGED <<exc, ser>>
         ELSE /\ Raise(out, "rollover")
              /\ UNCHANGED <<handles, disk, csvfile, csv_writer>>
    /\ UNCHANGED <<txn, conn, schema_ok, now, today_date, disk0, withfile, table,
                   response, idx, cur, readings, cycles, requests, db_result,
                   csv_result>>

\* line 169, read_data and send_command: write the command, wait, read and
\* decode what has arrived; the port may fail and the bytes may not decode
read_data ==
    /\ pc = "request"
    /\ requests' = requests + 1
    /\ \E out \in {"ok", "SerialException", "PermissionError", "UnicodeDecodeError"} :
         IF out = "ok"
         THEN /\ \E r \in Responses : response' = r
              /\ idx' = 1
              /\ readings' = <<>>
              /\ pc' = "process"
              /\ UNCHANGED <<exc, ser>>
         ELSE /\ Raise(out, "send_command")
              /\ UNCHANGED <<response, idx, readings>>
    /\ UNCHANGED <<txn, conn, schema_ok, now, today_date, disk, disk0, handles, csvfile,
                   withfile, csv_writer, table, cur, cycles, db_result, csv_result>>

\* process_data_line with the insert placed before the last conversions: a
\* line whose timestamp and first temperature parse reaches the table even
\* when a later field does not
process_data_line_early_insert ==
    /\ pc = "process"
    /\ idx <= Len(response)
    /\ LET parts == response[idx]
           p == ParseLine(parts)
       IN  IF p.ok
           THEN /\ cur' = p.reading
                /\ readings' = Append(readings, p.reading)
                /\ pc' = "db_write"
                /\ idx' = idx
                /\ table' = table
           ELSE /\ idx' = idx + 1
                /\ pc' = "process"
                /\ table' =
                     IF /\ Len(parts) >= MinFields
                        /\ StrptimeOk(parts[1])
                        /\ FloatOk(rstrip(strip(parts[2]), "C"))
                     THEN Append(table,
                                 [NoReading EXCEPT
                                    !.timestamp = Strptime(parts[1]),
                                    !.mjd = datetime_to_mjd(Strptime(parts[1])),
                                    !.temperature_s1 =
                                        FloatVal(rstrip(strip(parts[2]), "C"))])
                     ELSE table
                /\ UNCHANGED <<cur, readings>>
    /\ UNCHANGED <<txn, conn, schema_ok, ser, now, today_date, disk, disk0, handles,
                   csvfile, withfile, csv_writer, response, cycles,
                   requests, exc, db_result, csv_result>>

\* process_data_line with break in place of continue: a line that does not
\* parse ends the for loop
process_data_line_break ==
    /\ pc = "process"
    /\ idx <= Len(response)
    /\ LET p == ParseLine(response[idx])
       IN  IF p.ok
           THEN /\ cur' = p.reading
                /\ readings' = Append(readings, p.reading)
                /\ pc' = "db_write"
                /\ idx' = idx
           ELSE /\ idx' = Len(response) + 1
                /\ pc' = "process"
                /\ UNCHANGED <<cur, readings>>
    /\ UNCHANGED <<txn, conn, schema_ok, ser, now, today_date, disk, disk0, handles,
                   csvfile, withfile, csv_writer, table, response, cycles,
                   requests, exc, db_result, csv_result>>

\* lines 76-95 and 103-107: one line of the for loop up to the sink writes
process_data_line ==
    /\ pc = "process"
    /\ idx <= Len(response)
    /\ LET p == ParseLine(response[idx])
       IN  IF p.ok
           THEN /\ cur' = p.reading
                /\ readings' = Append(readings, p.reading)
                /\ pc' = "db_write"
                /\ idx' = idx
           ELSE /\ idx' = idx + 1
                /\ pc' = "process"
                /\ UNCHANGED <<cur, readings>>
    /\ UNCHANGED <<txn, conn, schema_ok, ser, now, today_date, disk, disk0, handles,
                   csvfile, withfile, csv_writer, table, response, cycles,
                   requests, exc, db_result, csv_result>>

\* line 98 with write_to_database: insert and commit; a database error is
\* printed and rolled back; "lost" is an error after which conn.rollback()
\* raises as well, and that exception leaves write_to_database with the
\* transaction neither committed nor rolled back
write_to_database ==
    /\ pc = "db_write"
    /\ \E out \in {"ok", "error", "lost"} :
         CASE out = "ok" ->
                /\ table' = Append(table, cur)
                /\ db_result' = "ok"
                /\ txn' = "committed"
                /\ pc' = "csv_write"
                /\ UNCHANGED <<exc, ser>>
           [] out = "error" ->
                /\ table' = table
                /\ db_result' = "error"
                /\ txn' = "rolled_back"
                /\ pc' = "csv_write"
                /\ UNCHANGED <<exc, ser>>
           [] out = "lost" ->
                /\ table' = table
                /\ db_result' = "error"
                /\ txn' = "left_open"
                /\ Raise("InterfaceError", "write_to_database")
    /\ UNCHANGED <<conn, schema_ok, now, today_date, disk, disk0, handles, csvfile,
                   withfile, csv_writer, response, idx, cur, readings, cycles,
                   requests, csv_result>>

\* lines 101-105: writerow on csv_writer's file object; a closed file object
\* raises ValueError, which line 103 catches; an OSError leaves process_data
writerow ==
    /\ pc = "csv_write"
    /\ IF csv_writer = 0 \/ ~handles[csv_writer].open
       THEN /\ csv_result' = "ValueError"
            /\ idx' = idx + 1
            /\ pc' = "process"
            /\ UNCHANGED <<disk, exc, ser>>
       ELSE \E out \in {"ok", "OSError", "PermissionError"} :
              IF out = "ok"
              THEN /\ disk' = [disk EXCEPT ![handles[csv_writer].day].rows =
                                               Append(@, CsvRow(cur))]
                   /\ csv_result' = "ok"
                   /\ idx' = idx + 1
                   /\ pc' = "process"
                   /\ UNCHANGED <<exc, ser>>
              ELSE /\ csv_result' = "error"
                   /\ Raise(out, "writerow")
                   /\ UNCHANGED <<disk, idx>>
    /\ UNCHANGED <<txn, conn, schema_ok, now, today_date, disk0, handles, csvfile,
                   withfile, csv_writer, table, response, cur, readings, cycles,
                   requests, db_result>>

\* process_data_return with an empty response treated as a failure of the
\* instrument: the cycle raises instead of going on to the sleep
process_data_return_empty_fatal ==
    /\ pc = "process"
    /\ idx > Len(response)
    /\ IF response = <<>>
       THEN /\ Raise("SerialException", "process_data")
            /\ UNCHANGED <<response, idx, cur, readings, db_result, txn, csv_result>>
       ELSE /\ pc' = "sleep"
            /\ response' = <<>>
            /\ idx' = 0
            /\ cur' = NoReading
            /\ readings' = <<>>
            /\ db_result' = "none"
            /\ txn' = "none"
            /\ csv_result' = "none"
            /\ UNCHANGED <<exc, ser>>
    /\ UNCHANGED <<conn, schema_ok, now, today_date, disk, disk0, handles,
                   csvfile, withfile, csv_writer, table, cycles, requests>>

\* process_data_return with the sink writes handed to the background: the
\* call returns while a line's writes are still pending
process_data_return_pending ==
    /\ pc \in {"process", "db_write", "csv_write"}
    /\ pc' = "sleep"
    /\ UNCHANGED <<txn, conn, schema_ok, ser, now, today_date, disk, disk0, handles,
                   csvfile, withfile, csv_writer, table, response, idx, cur,
                   readings, cycles, requests, exc, db_result, csv_result>>

\* the for loop of process_data is exhausted: return to line 175; the locals
\* of process_data are gone
process_data_return ==
    /\ pc = "process"
    /\ idx > Len(response)
    /\ pc' = "sleep"
    /\ response' = <<>>
    /\ idx' = 0
    /\ cur' = NoReading
    /\ readings' = <<>>
    /\ db_result' = "none"
    /\ txn' = "none"
    /\ csv_result' = "none"
    /\ UNCHANGED <<conn, schema_ok, ser, now, today_date, disk, disk0, handles,
                   csvfile, withfile, csv_writer, table, cycles, requests, exc>>

\* sleep that goes on to the next request without the rollover check of a
\* new cycle
sleep_skips_check ==
    /\ pc = "sleep"
    /\ pc' = "request"
    /\ UNCHANGED <<txn, conn, schema_ok, ser, now, today_date, disk, disk0, handles,
                   csvfile, withfile, csv_writer, table, response, idx, cur,
                   readings, cycles, requests, exc, db_result, csv_result>>

\* line 175: time.sleep(10), then the next cycle
sleep ==
    /\ pc = "sleep"
    /\ pc' = "cycle"
    /\ UNCHANGED <<txn, conn, schema_ok, ser, now, today_date, disk, disk0, handles,
                   csvfile, withfile, csv_writer, table, response, idx, cur,
                   readings, cycles, requests, exc, db_result, csv_result>>

(* ------------------------------ Stopped ------------------------------- *)
\* finally without conn.close()
finally_without_conn_close ==
    /\ pc = "finally"
    /\ handles' = CloseHandle(CloseHandle(handles, csvfile), withfile)
    /\ pc' = "stopped"
    /\ UNCHANGED <<txn, conn, schema_ok, ser, now, today_date, disk, disk0, csvfile,
                   withfile, csv_writer, table, response, idx, cur, readings,
                   cycles, requests, exc, db_result, csv_result>>

\* lines 177-186 and the end of the with statement of line 147: the handlers
\* print, finally closes csvfile and conn, and the with statement closes the
\* file object it opened
finally ==
    /\ pc = "finally"
    /\ handles' = CloseHandle(CloseHandle(handles, csvfile), withfile)
    /\ conn' = IF conn = "open" THEN "closed" ELSE conn
    /\ pc' = "stopped"
    /\ UNCHANGED <<txn, schema_ok, ser, now, today_date, disk, disk0, csvfile, withfile,
                   csv_writer, table, response, idx, cur, readings, cycles,
                   requests, exc, db_result, csv_result>>

(* ---------------------------- environment ----------------------------- *)
\* the process is interrupted (KeyboardInterrupt): while starting, or while
\* it waits in send_command (line 62) or in the sleep of line 175
Interrupt ==
    /\ pc \in StartingPcs \cup {"request", "sleep"}
    /\ IF pc \in BeforeTry
       THEN Escape("KeyboardInterrupt", "interrupt") /\ ser' = ser
       ELSE Raise("KeyboardInterrupt", "interrupt")
    /\ UNCHANGED <<txn, conn, schema_ok, now, today_date, disk, disk0, handles, csvfile,
                   withfile, csv_writer, table, response, idx, cur, readings,
                   cycles, requests, db_result, csv_result>>

\* midnight: the wall clock moves to the next date; main reads the clock at
\* lines 137 and 156 only, so the move is taken right before one of them
Tick ==
    /\ pc \in {"init_file", "cycle"}
    /\ now[3] < MaxDay
    /\ now' = NextDate(now)
    /\ UNCHANGED <<txn, pc, conn, schema_ok, ser, today_date, disk, disk0, handles,
                   csvfile, withfile, csv_writer, table, response, idx, cur,
                   readings, cycles, requests, exc, db_result, csv_result>>

Next ==
    \/ connect_to_db
    \/ create_table_if_not_exists
    \/ init_file
    \/ open_append
    \/ open_serial
    \/ check_rollover
    \/ roll_header
    \/ roll_open
    \/ read_data
    \/ process_data_line
    \/ write_to_database
    \/ writerow
    \/ process_data_return
    \/ sleep
    \/ finally
    \/ Interrupt
    \/ Tick

Spec == Init /\ [][Next]_vars

(* ------------------- process_data on its own ------------------------- *)
\* the state in which main calls process_data in its first cycle (connected,
\* table ensured, today's file created and open, port open, one request
\* answered), with any response over ParseLineSet
InitParse ==
    /\ pc = "process"
    /\ conn = "open"
    /\ schema_ok = TRUE
    /\ ser = "open"
    /\ now = FirstDate
    /\ today_date = FirstDate
    /\ disk0 = [d \in Dates |-> NoFile]
    /\ disk = [disk0 EXCEPT ![csv_file_path(FirstDate)] = NewFile]
    /\ handles = <<HeaderHandle(FirstDate), OpenHandle(FirstDate, "a")>>
    /\ csvfile = 2
    /\ withfile = 2
    /\ csv_writer = 2
    /\ table = <<>>
    /\ response \in ParseResponses
    /\ idx = 1
    /\ cur = NoReading
    /\ readings = <<>>
    /\ cycles = 1
    /\ requests = 1
    /\ exc = NoExc
    /\ db_result = "none"
    /\ txn = "none"
    /\ csv_result = "none"

NextParse ==
    \/ process_data_line
    \/ write_to_database
    \/ writerow
    \/ process_data_return
    \/ finally

SpecParse == InitParse /\ [][NextParse]_vars

TypeOK ==
    /\ pc \in StartingPcs \cup RunningPcs \cup StoppedPcs
    /\ conn \in {"none", "open", "closed"}
    /\ ser \in {"unopened", "open", "closed", "failed"}
    /\ now \in Dates
    /\ csvfile \in 0..Len(handles)
    /\ csv_writer \in 0..Len(handles)
    /\ withfile \in 0..Len(handles)
    /\ idx \in 0..(Len(response) + 1)
    /\ db_result \in {"none", "ok", "error"}
    /\ txn \in {"none", "committed", "rolled_back", "left_open"}

(* ============================ properties ============================== *)
FilesClosed == \A h \in 1..Len(handles) : ~handles[h].open

\* a fatal transport condition: the port failed to open or failed in a
\* request/response
TransportError(e) ==
    e.site \in {"open_serial", "send_command"} /\ e.type \in Caught

(* C1: when write_to_database fails with a database error, whatever the     *)
(* error, the next step is the file append of the same reading: the insert  *)
(* failure neither skips the append nor takes the loop out of Running.      *)
C1_DbFailureStillAppends ==
    [][(pc = "db_write" /\ db_result' = "error")
         => (pc' = "csv_write" /\ cur' = cur /\ idx' = idx)]_vars

(* C2: a failed write of a row to the day file is recoverable: the table is *)
(* untouched, the for loop goes on to the next line and the loop stays in   *)
(* Running.                                                                 *)
C2_FileFailureIsRecoverable ==
    [][(pc = "csv_write" /\ csv_result' = "error")
         => (pc' = "process" /\ idx' = idx + 1 /\ table' = table)]_vars

(* C3: whenever main has stopped after the database connection was opened, *)
(* the connection is closed, no file object is open, and no file object was *)
(* closed more than once.                                                   *)
C3_ReleasedExactlyOnce ==
    (pc = "stopped" /\ conn # "none")
      => /\ conn = "closed"
         /\ FilesClosed
         /\ \A h \in 1..Len(handles) : handles[h].closes = 1

C5_StartingFailureIsFatal ==
    (pc \in RunningPcs \/ requests > 0 \/ table # <<>>)
      => /\ conn # "none"
         /\ schema_ok
         /\ withfile # 0
         /\ ser \in {"open", "closed"}

(* C6: a step that takes the loop out of Running is caused by a transport   *)
(* error or by a process interrupt, and by nothing else.                    *)
C6_OnlyTransportOrInterruptStops ==
    [][(pc \in RunningPcs /\ pc' \notin RunningPcs)
         => (TransportError(exc') \/ exc'.type = "KeyboardInterrupt")]_vars

(* C7: once a transport error was raised, no request is issued and nothing  *)
(* is written to the table or to a day file any more; the loop is on its    *)
(* way to Stopped, and when it has stopped the port, the file objects and   *)
(* the connection are released.                                             *)
C7_TransportErrorEndsLoop ==
    /\ [](TransportError(exc)
            => /\ pc \in StoppedPcs
               /\ ser # "open"
               /\ (pc = "stopped" => conn = "closed" /\ FilesClosed))
    /\ [][TransportError(exc)
            => (requests' = requests /\ table' = table /\ disk' = disk
                /\ pc' = "stopped")]_vars

C7_Witness ==
    /\ pc = "stopped"
    /\ exc = [type |-> "SerialException", site |-> "send_command"]
    /\ table # <<>>
    /\ requests = 2
    /\ conn = "closed"

(* C8: every data row of the day file of date D belongs to a reading whose  *)
(* timestamp has date D.                                                    *)
C8_NoReadingInWrongFile ==
    \A d \in Dates : \A i \in 1..Len(disk[d].rows) :
        disk[d].rows[i].kind = "data" => disk[d].rows[i].cols[1] = d

(* C9: from the rollover check of a cycle to its end, the file object       *)
(* csv_writer writes to is open, is the only open one and is on the file of *)
(* today_date; and no step writes to another file than today_date's.        *)
C9_OpenFileIsTodaysFile ==
    /\ [](pc \in {"request", "process", "db_write", "csv_write", "sleep"}
            => /\ csv_writer # 0
               /\ csvfile = csv_writer
               /\ handles[csv_writer].open
               /\ handles[csv_writer].mode = "a"
               /\ csv_file_path(handles[csv_writer].day) = csv_file_path(today_date)
               /\ \A h \in 1..Len(handles) : handles[h].open => h = csv_writer)
    /\ [][\A d \in Dates :
            disk'[d].rows # disk[d].rows => csv_file_path(today_date') = d]_vars

C9_Witness ==
    /\ pc = "process"
    /\ today_date # FirstDate
    /\ ~disk0[today_date].exists
    /\ Len(disk[today_date].rows) = 2
    /\ disk[today_date].rows[2].kind = "data"
    /\ handles[csv_writer].day = today_date

(* C10: a line is malformed when it has fewer than 8 fields, or its field 0 *)
(* is no timestamp, or one of its fields 1, 3, 5, 7 is no number once the   *)
(* unit is stripped.                                                        *)
Malformed(line) ==
    \/ Len(line) < 8
    \/ ~StrptimeOk(line[1])
    \/ ~FloatOk(rstrip(strip(line[2]), "C"))
    \/ ~FloatOk(rstrip(strip(line[4]), "%"))
    \/ ~FloatOk(rstrip(strip(line[6]), "C"))
    \/ ~FloatOk(rstrip(strip(line[8]), "%"))

\* the positions of the well-formed lines among the first n lines
RECURSIVE WellFormedUpTo(_, _)
WellFormedUpTo(resp, n) ==
    IF n = 0 THEN <<>>
    ELSE IF Malformed(resp[n]) THEN WellFormedUpTo(resp, n - 1)
         ELSE Append(WellFormedUpTo(resp, n - 1), n)

\* the lines process_data has taken up so far
LinesTaken == IF pc = "process" THEN idx - 1 ELSE idx

(* C10: process_data builds one reading per well-formed line and none for a *)
(* malformed one, in line order, so a response of N lines with M malformed  *)
(* ones has given N-M readings when the loop is through; a malformed line   *)
(* raises nothing, changes neither sink and is followed by the next line.   *)
C10_OneReadingPerWellFormedLine ==
    /\ [](pc \in {"process", "db_write", "csv_write"}
            => LET wf == WellFormedUpTo(response, LinesTaken)
               IN  /\ Len(readings) = Len(wf)
                   /\ \A j \in 1..Len(wf) :
                        readings[j].timestamp = Strptime(response[wf[j]][1]))
    /\ [][(pc = "process" /\ idx <= Len(response) /\ Malformed(response[idx]))
            => (pc' = "process" /\ idx' = idx + 1 /\ readings' = readings
                /\ table' = table /\ disk' = disk /\ exc' = exc)]_vars

C10_Witness ==
    /\ pc = "process"
    /\ Len(response) = 2
    /\ idx = 3
    /\ Malformed(response[1])
    /\ ~Malformed(response[2])
    /\ Len(readings) = 1

(* ------------------------------- C11 ---------------------------------- *)
\* the number a field stands for: its digits, read in order
NumberOf(field) == FloatVal(SelectSeq(field, LAMBDA c : c \in Digits))

\* the reading a well-formed line stands for: its timestamp and the numbers
\* of its fields 1, 3, 5 and 7
ExpectedReading(line) ==
    [timestamp |-> Strptime(line[1]),
     mjd |-> datetime_to_mjd(Strptime(line[1])),
     temperature_s1 |-> NumberOf(line[2]),
     humidity_s1 |-> NumberOf(line[4]),
     temperature_s2 |-> NumberOf(line[6]),
     humidity_s2 |-> NumberOf(line[8])]

\* a line of 8 fields or more whose timestamp or one of whose four numbers
\* does not parse
ParseFails(line) == Len(line) >= 8 /\ Malformed(line)

(* C11: a line whose timestamp or one of whose numeric fields does not      *)
(* parse leaves the table and the day files exactly as they were; every row *)
(* of either sink is the complete reading of a well-formed line of the      *)
(* response being processed.                                                *)
C11_AllOrNothing ==
    /\ [][(pc = "process" /\ idx <= Len(response) /\ ParseFails(response[idx]))
            => (table' = table /\ disk' = disk /\ pc' = "process")]_vars
    /\ [](pc # "sleep"
            => /\ \A i \in 1..Len(table) :
                    \E k \in 1..Len(response) :
                        /\ ~Malformed(response[k])
                        /\ table[i] = ExpectedReading(response[k])
               /\ \A d \in Dates : \A i \in 1..Len(disk[d].rows) :
                    disk[d].rows[i].kind = "data"
                      => \E k \in 1..Len(response) :
                             /\ ~Malformed(response[k])
                             /\ disk[d].rows[i] = CsvRow(ExpectedReading(response[k])))

C11_Witness ==
    /\ pc = "process"
    /\ Len(response) = 2
    /\ idx = 3
    /\ response[1] = LineBadHum
    /\ ~Malformed(response[2])
    /\ Len(table) = 1
    /\ Len(disk[FirstDate].rows) = 2

(* ------------------------------- C12 ---------------------------------- *)
ProcessPcs == {"process", "db_write", "csv_write"}

(* C12: within a response the lines are taken in order and a line is left   *)
(* only after its insert and then its append were made, each write being    *)
(* that of the line the loop is at; and a request is sent only when the     *)
(* process_data call of the cycle before has returned.                      *)
C12_WritesInLineOrder ==
    [][/\ (table' # table
             => /\ pc = "db_write"
                /\ table' = Append(table, ExpectedReading(response[idx])))
       /\ \A d \in Dates :
            (disk'[d].rows # disk[d].rows /\ pc \in RunningPcs \ {"roll_header"})
              => /\ pc = "csv_write"
                 /\ disk'[d].rows =
                      Append(disk[d].rows, CsvRow(ExpectedReading(response[idx])))
       /\ (pc' = "csv_write" => pc = "db_write" /\ idx' = idx)
       /\ (pc' = "db_write" => pc = "process" /\ idx' = idx)
       /\ ((pc \in ProcessPcs /\ pc' \in ProcessPcs)
             => /\ idx' \in {idx, idx + 1}
                /\ (idx' = idx + 1 /\ ~Malformed(response[idx])) => pc = "csv_write")
       /\ (requests' # requests
             => pc = "request" /\ response = <<>> /\ cur = NoReading)]_vars

C12_Witness ==
    /\ pc = "process"
    /\ cycles = 2
    /\ Len(response) = 2
    /\ idx = 3
    /\ response[1] = LineDay2
    /\ response[2] = LineDay1
    /\ Len(table) = 3
    /\ table[2] = ExpectedReading(LineDay2)
    /\ table[3] = ExpectedReading(LineDay1)
    /\ Len(disk[today_date].rows) >= 3

(* ------------------------------- C13 ---------------------------------- *)
(* C13: a cycle whose response is empty makes no insert and no append: the  *)
(* only step process_data takes is its return to the sleep, with the table, *)
(* the day files and the exception state unchanged, and the loop is still   *)
(* in Running with the port, the connection and the day file open.          *)
C13_EmptyResponseIsNoData ==
    /\ [][(pc = "process" /\ Len(response) = 0)
            => (pc' = "sleep" /\ table' = table /\ disk' = disk /\ exc' = NoExc
                /\ conn' = "open" /\ ser' = "open" /\ handles' = handles)]_vars
    /\ []((pc = "process" /\ Len(response) = 0)
            => (exc = NoExc /\ readings = <<>> /\ idx = 1))

C13_Witness ==
    /\ pc = "process"
    /\ Len(response) = 0
    /\ requests = 2
    /\ table # <<>>

(* ------------------------------- C14 ---------------------------------- *)
\* rows a is a prefix of rows b
IsPrefix(a, b) == Len(a) <= Len(b) /\ \A i \in 1..Len(a) : b[i] = a[i]

(* C14: a day file that exists stays and keeps every row it has (it is only *)
(* appended to); the header is written only when a file is created, as its  *)
(* first row, and every existing file has exactly one header row, the first.*)
C14_FilesOnlyGrow ==
    /\ [][\A d \in Dates :
            /\ disk[d].exists
                 => /\ disk'[d].exists
                    /\ IsPrefix(disk[d].rows, disk'[d].rows)
                    /\ \A i \in (Len(disk[d].rows) + 1)..Len(disk'[d].rows) :
                         disk'[d].rows[i].kind = "data"
            /\ (~disk[d].exists /\ disk'[d].exists)
                 => disk'[d].rows = <<Header>>]_vars
    /\ [](\A d \in Dates :
            disk[d].exists
              => /\ Len(disk[d].rows) >= 1
                 /\ disk[d].rows[1].kind = "header"
                 /\ \A i \in 2..Len(disk[d].rows) : disk[d].rows[i].kind = "data"
                 /\ IsPrefix(disk0[d].rows, disk[d].rows))

C14_Witness ==
    /\ pc = "process"
    /\ today_date # FirstDate
    /\ disk0[today_date].exists
    /\ Len(disk[today_date].rows) = 3
    /\ disk[today_date].rows[3].kind = "data"
    /\ ~disk0[FirstDate].exists
    /\ disk[FirstDate].rows = <<Header>>

(* ------------------------------- C15 ---------------------------------- *)
\* the file objects opened for appending: the first one at the start, one
\* more for every rotation that was completed
AppendHandles == {h \in 1..Len(handles) : handles[h].mode = "a"}

RotationPcs == {"cycle", "roll_header", "roll_open"}

(* C15: the rollover check is the first step of a cycle and is made once,   *)
(* before the request; it starts a rotation (close the file, move           *)
(* today_date to the sampled date) exactly when the sampled date differs    *)
(* from today_date, and otherwise leaves the file objects and today_date    *)
(* alone; nothing else in Running closes or opens a file or moves           *)
(* today_date, and there are never more rotations than dates passed.        *)
C15_RolloverOncePerCycle ==
    /\ [][cycles' # cycles
            => /\ pc = "cycle"
               /\ cycles' = cycles + 1
               /\ requests = cycles
               /\ IF now # today_date
                  THEN /\ pc' = "roll_header"
                       /\ today_date' = now
                       /\ handles[csvfile].open /\ ~handles'[csvfile].open
                  ELSE /\ pc' = "request"
                       /\ handles' = handles
                       /\ today_date' = today_date
                       /\ csvfile' = csvfile
                       /\ csv_writer' = csv_writer]_vars
    /\ [][(pc \in RunningPcs
             /\ (handles' # handles \/ today_date' # today_date \/ csvfile' # csvfile))
            => (pc \in RotationPcs /\ cycles = requests + (IF pc = "cycle" THEN 0 ELSE 1))]_vars
    /\ [][requests' # requests => (pc = "request" /\ cycles = requests + 1)]_vars
    /\ [](Cardinality(AppendHandles) <= 1 + (now[3] - FirstDate[3]))

C15_Witness ==
    /\ pc = "request"
    /\ cycles = 2
    /\ requests = 1
    /\ today_date # FirstDate
    /\ Cardinality(AppendHandles) = 2
    /\ handles[csvfile].open
    /\ handles[csvfile].day = today_date

(* ------------------------------- C16 ---------------------------------- *)
(* C16: a reading that was built gets one insert attempt and then one       *)
(* append attempt before the loop moves on: the insert attempt is always    *)
(* followed by the append attempt of the same reading, whatever the         *)
(* insert's outcome, and the append attempt is made once.                   *)
C16_OneAttemptPerSink ==
    [][/\ (pc' = "db_write" => (pc = "process" /\ cur' = ExpectedReading(response[idx])))
       /\ (pc = "db_write" => (pc' = "csv_write" /\ cur' = cur /\ idx' = idx))
       /\ (pc = "csv_write" => pc' # "csv_write")
       /\ (pc' = "csv_write" => pc = "db_write")]_vars

(* ------------------------------- C17 ---------------------------------- *)
\* the fields of a line that carry data: 0, 1, 3, 5 and 7
DataFields(line) == <<line[1], line[2], line[4], line[6], line[8]>>

(* C17: a well-formed line yields one reading, whose timestamp is field 0   *)
(* and whose four values are the numbers of fields 1, 3, 5 and 7 without    *)
(* their unit; any line with the same five fields yields the same reading,  *)
(* whatever its other fields are.                                           *)
C17_ReadingEqualsFields ==
    /\ [][(pc = "process" /\ idx <= Len(response) /\ ~Malformed(response[idx]))
            => /\ pc' = "db_write"
               /\ cur' = ExpectedReading(response[idx])
               /\ readings' = Append(readings, ExpectedReading(response[idx]))]_vars
    /\ [](pc \in {"db_write", "csv_write"}
            => /\ cur.timestamp = Strptime(response[idx][1])
               /\ \A l \in ParseLineSet :
                    (Len(l) >= 8 /\ DataFields(l) = DataFields(response[idx]))
                      => (ParseLine(l).ok /\ ParseLine(l).reading = cur))

C17_Witness ==
    /\ pc = "db_write"
    /\ response[idx] = LineDay1Alt
    /\ cur = ParseLine(LineDay1).reading
    /\ cur.temperature_s1 = 21
    /\ cur.humidity_s1 = 45
    /\ cur.temperature_s2 = 22
    /\ cur.humidity_s2 = 46
    /\ cur.timestamp.hour = 23

(* ------------------------------- C18 ---------------------------------- *)
(* C18: one reading is one transaction: every call of write_to_database     *)
(* ends with its transaction closed before the next reading is processed,   *)
(* committed with the row of the reading added on success, rolled back with *)
(* the table untouched on a database error.                                 *)
C18_OneReadingOneTransaction ==
    [][pc = "db_write" =>
         \/ db_result' = "ok" /\ txn' = "committed"
              /\ table' = Append(table, cur)
         \/ db_result' = "error" /\ txn' = "rolled_back"
              /\ table' = table]_vars

(* ------------------------------- C19 ---------------------------------- *)
\* the pcs of a cycle before its request, and after it
BeforeRequestPcs == {"roll_header", "roll_open", "request"}
AfterRequestPcs == {"process", "db_write", "csv_write", "sleep"}

(* C19: a Running cycle goes rollover check, one request, parsing and sink  *)
(* writes of that response, sleep: the request is the only one of its       *)
(* cycle and comes after the check, parsing starts from the request, the    *)
(* sleep follows the parsing and leads to the next check, and a row is      *)
(* written to a sink only after the request of the cycle.                   *)
C19_FixedStepOrder ==
    /\ [](pc \in BeforeRequestPcs => cycles = requests + 1)
    /\ [](pc \in AfterRequestPcs \cup {"cycle"} => cycles = requests)
    /\ [][/\ (requests' # requests =>
                 pc = "request" /\ requests' = requests + 1)
           /\ (cycles' # cycles => pc = "cycle" /\ cycles' = cycles + 1)
           /\ (pc = "cycle" => pc' \in {"cycle", "roll_header", "request"})
           /\ (pc \in {"roll_header", "roll_open"} =>
                 pc' \in {"roll_open", "request"} \cup StoppedPcs)
           /\ (pc = "request" => pc' \in {"process"} \cup StoppedPcs)
           /\ (pc \in ProcessPcs => pc' \in AfterRequestPcs \cup StoppedPcs)
           /\ (pc' = "sleep" => pc = "process")
           /\ (pc = "sleep" => pc' \in {"cycle"} \cup StoppedPcs)
           /\ (table' # table => pc = "db_write" /\ cycles = requests)
           /\ ((pc \in RunningPcs \ (RotationPcs \cup {"csv_write"})) =>
                 disk' = disk)]_vars

C19_Witness ==
    /\ pc = "sleep"
    /\ cycles = 2
    /\ requests = 2
    /\ Len(table) >= 2

(* ------------------------------- C20 ---------------------------------- *)
(* C20: every append of process_data goes through a writer on a file object *)
(* that is open at that moment: while a response is processed csv_writer is *)
(* on an append-mode file object that was never closed, not on a header     *)
(* file object nor on the one of the day before, and no writerow finds its  *)
(* file closed.                                                             *)
C20_WriterOnOpenHandle ==
    /\ [](pc \in ProcessPcs =>
            /\ csv_writer \in 1..Len(handles)
            /\ handles[csv_writer].open
            /\ handles[csv_writer].closes = 0
            /\ handles[csv_writer].mode # "w")
    /\ [][pc = "csv_write" => csv_result' \in {"ok", "error"}]_vars

\* an append after a rollover in which the header of the new day was written:
\* the header file objects of both days and the first day's file are closed
C20_Witness ==
    /\ pc = "process"
    /\ csv_result = "ok"
    /\ Len(handles) = 4
    /\ csv_writer = 4
    /\ handles[1].mode = "w" /\ ~handles[1].open
    /\ handles[2].mode = "a" /\ ~handles[2].open
    /\ handles[3].mode = "w" /\ ~handles[3].open

(* ------------------------------- C21 ---------------------------------- *)
\* the file objects that are open
OpenHandles == {h \in 1..Len(handles) : handles[h].open}

(* C21: at most one file object on a day file is open at any time, and a    *)
(* file object is created (for a header or for appending, at startup or at  *)
(* a rollover) only when every file object created before it is closed.     *)
C21_AtMostOneOpenHandle ==
    /\ [](Cardinality(OpenHandles) <= 1)
    /\ [][Len(handles') > Len(handles) =>
            /\ Len(handles') = Len(handles) + 1
            /\ \A h \in 1..Len(handles) : ~handles[h].open]_vars

\* the second day's file is open for appending after its header was written,
\* and the three file objects made before it are closed
C21_Witness ==
    /\ pc = "request"
    /\ Len(handles) = 4
    /\ OpenHandles = {4}
    /\ handles[4].day # handles[2].day
    /\ handles[2].closes = 1

(* ------------------------------- C22 ---------------------------------- *)
(* C22: once the port was opened, every exit from the loop (transport       *)
(* error, other exception, interrupt) closes the port, and closes it first: *)
(* the step that leaves the loop closes the port and releases neither a     *)
(* file object nor the connection, the port is open only inside the loop,   *)
(* and the connection and the last file object are released by a later      *)
(* step, with the port already closed.                                      *)
C22_PortClosedFirst ==
    /\ [](ser = "open" => pc \in RunningPcs)
    /\ [](pc \in StoppedPcs /\ ser \notin {"unopened", "failed"} => ser = "closed")
    /\ [][/\ (pc \in RunningPcs /\ pc' \notin RunningPcs =>
                 /\ pc' = "finally"
                 /\ ser' = "closed"
                 /\ handles' = handles
                 /\ conn' = conn)
           /\ (conn' # conn /\ conn = "open" => ser # "open" /\ ser' # "open")
           /\ (pc \in StoppedPcs /\ handles' # handles => ser # "open")]_vars

\* an exception that main does not catch has left the loop: the port is
\* closed while the day file and the connection are still open
C22_Witness ==
    /\ pc = "finally"
    /\ exc.type = "UnicodeDecodeError"
    /\ ser = "closed"
    /\ conn = "open"
    /\ csvfile # 0
    /\ handles[csvfile].open

====
